---- MODULE Spec2Model ----
(***************************************************************************)
(* Model of src/lru.ts: LRUCache, a doubly linked list-based LRU cache.    *)
(*                                                                         *)
(* Entries are heap objects.  The heap is the sequence `entries`; an entry *)
(* reference is its index in that sequence and 0 is `undefined`.  Objects  *)
(* are never freed in the model, so a reference the code still holds (a    *)
(* stale tail, the links of a removed entry) keeps its meaning.            *)
(***************************************************************************)
EXTENDS Integers, Sequences, FiniteSets, TLC

\* ---- bounds ----
MaxLimit == 2
MaxEntries == 3

Keys == {"a", "b"}
\* The cache never looks into a value, so the calls of the state machine store
\* one value; the properties about values apply the methods to CallValues.
Values == {1}
CallValues == {1, 2}
undefined == 0

VARIABLES
  limit,     \* LRUCache.limit
  size,      \* LRUCache.size
  keymap,    \* LRUCache.keymap : key -> entry reference (undefined when the key is not a property)
  head,      \* LRUCache.head
  tail,      \* LRUCache.tail
  entries,   \* the heap of Entry objects created by put
  last,      \* history: the last public call, what it returned, what its put evicted
  useOrder,  \* history: all entries ever created, ordered by their last use
  returned   \* history: entries handed back by shift (direct or from put) or taken out by remove

vars == <<limit, size, keymap, head, tail, entries, last, useOrder, returned>>

Entry(key, value) == [newer |-> undefined, older |-> undefined, key |-> key, value |-> value]

\* the cache object as one value, so that the methods are operators on it
Cache ==
  [limit |-> limit, size |-> size, keymap |-> keymap, head |-> head, tail |-> tail, entries |-> entries]

\* ---- methods ----

\* shift with the slip of leaving out `delete this.keymap[entry.key]`
shift_KeepsKey(c) ==
  LET entry == c.head IN
  IF entry # undefined
  THEN LET c1 == IF c.head # undefined /\ c.entries[c.head].newer # undefined
                 THEN LET c1a == [c EXCEPT !.head = c.entries[c.head].newer]
                      IN [c1a EXCEPT !.entries[c1a.head].older = undefined]
                 ELSE [c EXCEPT !.head = undefined]
           c2 == [c1 EXCEPT !.entries[entry].older = undefined]
           c3 == [c2 EXCEPT !.entries[entry].newer = undefined]
       IN [c |-> c3, ret |-> entry]
  ELSE [c |-> c, ret |-> undefined]

\* shift with the slip of returning this.head (the new head) instead of the purged entry
shift_ReturnsNewHead(c) ==
  LET entry == c.head IN
  IF entry # undefined
  THEN LET c1 == IF c.head # undefined /\ c.entries[c.head].newer # undefined
                 THEN LET c1a == [c EXCEPT !.head = c.entries[c.head].newer]
                      IN [c1a EXCEPT !.entries[c1a.head].older = undefined]
                 ELSE [c EXCEPT !.head = undefined]
           c2 == [c1 EXCEPT !.entries[entry].older = undefined]
           c3 == [c2 EXCEPT !.entries[entry].newer = undefined]
           c4 == [c3 EXCEPT !.keymap[c3.entries[entry].key] = undefined]
       IN [c |-> c4, ret |-> c4.head]
  ELSE [c |-> c, ret |-> undefined]

shift(c) ==
  LET entry == c.head IN
  IF entry # undefined
  THEN LET c1 == IF c.head # undefined /\ c.entries[c.head].newer # undefined
                 THEN LET c1a == [c EXCEPT !.head = c.entries[c.head].newer]
                      IN [c1a EXCEPT !.entries[c1a.head].older = undefined]
                 ELSE [c EXCEPT !.head = undefined]
           c2 == [c1 EXCEPT !.entries[entry].older = undefined]
           c3 == [c2 EXCEPT !.entries[entry].newer = undefined]
           c4 == [c3 EXCEPT !.keymap[c3.entries[entry].key] = undefined]
       IN [c |-> c4, ret |-> entry]
  ELSE [c |-> c, ret |-> undefined]

\* put with the slip of testing size > limit instead of size === limit
put_EvictsLate(c, key, value) ==
  LET entry == Len(c.entries) + 1
      c1 == [c EXCEPT !.entries = Append(@, Entry(key, value))]
      c2 == [c1 EXCEPT !.keymap[key] = entry]
      c3 == IF c2.tail # undefined
            THEN LET c3a == [c2 EXCEPT !.entries[c2.tail].newer = entry]
                 IN [c3a EXCEPT !.entries[entry].older = c3a.tail]
            ELSE [c2 EXCEPT !.head = entry]
      c4 == [c3 EXCEPT !.tail = entry]
  IN IF c4.size > c4.limit
     THEN shift(c4)
     ELSE [c |-> [c4 EXCEPT !.size = @ + 1], ret |-> undefined]

put(c, key, value) ==
  LET entry == Len(c.entries) + 1
      c1 == [c EXCEPT !.entries = Append(@, Entry(key, value))]
      c2 == [c1 EXCEPT !.keymap[key] = entry]
      c3 == IF c2.tail # undefined
            THEN LET c3a == [c2 EXCEPT !.entries[c2.tail].newer = entry]
                 IN [c3a EXCEPT !.entries[entry].older = c3a.tail]
            ELSE [c2 EXCEPT !.head = entry]
      c4 == [c3 EXCEPT !.tail = entry]
  IN IF c4.size = c4.limit
     THEN shift(c4)
     ELSE [c |-> [c4 EXCEPT !.size = @ + 1], ret |-> undefined]

\* get with the slip of leaving out the test `entry === this.tail`
get_NoFastPath(c, key, returnEntry) ==
  LET entry == c.keymap[key] IN
  IF entry = undefined THEN [c |-> c, ret |-> undefined]
  ELSE IF FALSE
  THEN [c |-> c, ret |-> IF returnEntry THEN entry ELSE c.entries[entry].value]
  ELSE
    LET c1 == IF c.entries[entry].newer # undefined
              THEN LET c1a == IF entry = c.head
                              THEN [c EXCEPT !.head = c.entries[entry].newer]
                              ELSE c
                   IN [c1a EXCEPT !.entries[c1a.entries[entry].newer].older = c1a.entries[entry].older]
              ELSE c
        c2 == IF c1.entries[entry].older # undefined
              THEN [c1 EXCEPT !.entries[c1.entries[entry].older].newer = c1.entries[entry].newer]
              ELSE c1
        c3 == [c2 EXCEPT !.entries[entry].newer = undefined]
        c4 == [c3 EXCEPT !.entries[entry].older = c3.tail]
        c5 == IF c4.tail # undefined
              THEN [c4 EXCEPT !.entries[c4.tail].newer = entry]
              ELSE c4
        c6 == [c5 EXCEPT !.tail = entry]
    IN [c |-> c6, ret |-> IF returnEntry THEN entry ELSE c6.entries[entry].value]

\* get with the slip of leaving out `if (entry === this.head) this.head = entry.newer`
get_KeepsHead(c, key, returnEntry) ==
  LET entry == c.keymap[key] IN
  IF entry = undefined THEN [c |-> c, ret |-> undefined]
  ELSE IF entry = c.tail
  THEN [c |-> c, ret |-> IF returnEntry THEN entry ELSE c.entries[entry].value]
  ELSE
    LET c1 == IF c.entries[entry].newer # undefined
              THEN LET c1a == c
                   IN [c1a EXCEPT !.entries[c1a.entries[entry].newer].older = c1a.entries[entry].older]
              ELSE c
        c2 == IF c1.entries[entry].older # undefined
              THEN [c1 EXCEPT !.entries[c1.entries[entry].older].newer = c1.entries[entry].newer]
              ELSE c1
        c3 == [c2 EXCEPT !.entries[entry].newer = undefined]
        c4 == [c3 EXCEPT !.entries[entry].older = c3.tail]
        c5 == IF c4.tail # undefined
              THEN [c4 EXCEPT !.entries[c4.tail].newer = entry]
              ELSE c4
        c6 == [c5 EXCEPT !.tail = entry]
    IN [c |-> c6, ret |-> IF returnEntry THEN entry ELSE c6.entries[entry].value]

get(c, key, returnEntry) ==
  LET entry == c.keymap[key] IN
  IF entry = undefined THEN [c |-> c, ret |-> undefined]
  ELSE IF entry = c.tail
  THEN [c |-> c, ret |-> IF returnEntry THEN entry ELSE c.entries[entry].value]
  ELSE
    LET c1 == IF c.entries[entry].newer # undefined
              THEN LET c1a == IF entry = c.head
                              THEN [c EXCEPT !.head = c.entries[entry].newer]
                              ELSE c
                   IN [c1a EXCEPT !.entries[c1a.entries[entry].newer].older = c1a.entries[entry].older]
              ELSE c
        c2 == IF c1.entries[entry].older # undefined
              THEN [c1 EXCEPT !.entries[c1.entries[entry].older].newer = c1.entries[entry].newer]
              ELSE c1
        c3 == [c2 EXCEPT !.entries[entry].newer = undefined]
        c4 == [c3 EXCEPT !.entries[entry].older = c3.tail]
        c5 == IF c4.tail # undefined
              THEN [c4 EXCEPT !.entries[c4.tail].newer = entry]
              ELSE c4
        c6 == [c5 EXCEPT !.tail = entry]
    IN [c |-> c6, ret |-> IF returnEntry THEN entry ELSE c6.entries[entry].value]

find(c, key) == c.keymap[key]

\* set with the slip of reading the old value after the assignment
set_ReturnsNew(c, key, value) ==
  LET g == get(c, key, TRUE)
      entry == g.ret
  IN IF entry # undefined
     THEN LET c1 == [g.c EXCEPT !.entries[entry].value = value]
          IN [c |-> c1, ret |-> c1.entries[entry].value]
     ELSE LET p == put(g.c, key, value)
          IN [c |-> p.c, ret |-> IF p.ret # undefined THEN p.c.entries[p.ret].value ELSE undefined]

set(c, key, value) ==
  LET g == get(c, key, TRUE)
      entry == g.ret
  IN IF entry # undefined
     THEN [c |-> [g.c EXCEPT !.entries[entry].value = value], ret |-> g.c.entries[entry].value]
     ELSE LET p == put(g.c, key, value)
          IN [c |-> p.c, ret |-> IF p.ret # undefined THEN p.c.entries[p.ret].value ELSE undefined]

\* remove with the slip of counting down before the test `if (!entry) return`
remove_CountsMiss(c, key) ==
  LET entry == c.keymap[key] IN
  IF entry = undefined THEN [c |-> [c EXCEPT !.size = @ - 1], ret |-> undefined]
  ELSE
    LET c1 == [c EXCEPT !.keymap[c.entries[entry].key] = undefined]
        e1 == c1.entries[entry]
        c2 == IF e1.newer # undefined /\ e1.older # undefined
              THEN LET c2a == [c1 EXCEPT !.entries[e1.older].newer = e1.newer]
                   IN [c2a EXCEPT !.entries[c2a.entries[entry].newer].older = c2a.entries[entry].older]
              ELSE IF e1.newer # undefined
              THEN LET c2b == [c1 EXCEPT !.entries[e1.newer].older = undefined]
                   IN [c2b EXCEPT !.head = c2b.entries[entry].newer]
              ELSE IF e1.older # undefined
              THEN LET c2c == [c1 EXCEPT !.entries[e1.older].newer = undefined]
                   IN [c2c EXCEPT !.tail = c2c.entries[entry].older]
              ELSE [c1 EXCEPT !.head = undefined, !.tail = undefined]
        c3 == [c2 EXCEPT !.size = @ - 1]
    IN [c |-> c3, ret |-> c3.entries[entry].value]

\* remove with the slip of leaving out `delete this.keymap[entry.key]`
remove_KeepsKey(c, key) ==
  LET entry == c.keymap[key] IN
  IF entry = undefined THEN [c |-> c, ret |-> undefined]
  ELSE
    LET c1 == c
        e1 == c1.entries[entry]
        c2 == IF e1.newer # undefined /\ e1.older # undefined
              THEN LET c2a == [c1 EXCEPT !.entries[e1.older].newer = e1.newer]
                   IN [c2a EXCEPT !.entries[c2a.entries[entry].newer].older = c2a.entries[entry].older]
              ELSE IF e1.newer # undefined
              THEN LET c2b == [c1 EXCEPT !.entries[e1.newer].older = undefined]
                   IN [c2b EXCEPT !.head = c2b.entries[entry].newer]
              ELSE IF e1.older # undefined
              THEN LET c2c == [c1 EXCEPT !.entries[e1.older].newer = undefined]
                   IN [c2c EXCEPT !.tail = c2c.entries[entry].older]
              ELSE [c1 EXCEPT !.head = undefined, !.tail = undefined]
        c3 == [c2 EXCEPT !.size = @ - 1]
    IN [c |-> c3, ret |-> c3.entries[entry].value]

remove(c, key) ==
  LET entry == c.keymap[key] IN
  IF entry = undefined THEN [c |-> c, ret |-> undefined]
  ELSE
    LET c1 == [c EXCEPT !.keymap[c.entries[entry].key] = undefined]
        e1 == c1.entries[entry]
        c2 == IF e1.newer # undefined /\ e1.older # undefined
              THEN LET c2a == [c1 EXCEPT !.entries[e1.older].newer = e1.newer]
                   IN [c2a EXCEPT !.entries[c2a.entries[entry].newer].older = c2a.entries[entry].older]
              ELSE IF e1.newer # undefined
              THEN LET c2b == [c1 EXCEPT !.entries[e1.newer].older = undefined]
                   IN [c2b EXCEPT !.head = c2b.entries[entry].newer]
              ELSE IF e1.older # undefined
              THEN LET c2c == [c1 EXCEPT !.entries[e1.older].newer = undefined]
                   IN [c2c EXCEPT !.tail = c2c.entries[entry].older]
              ELSE [c1 EXCEPT !.head = undefined, !.tail = undefined]
        c3 == [c2 EXCEPT !.size = @ - 1]
    IN [c |-> c3, ret |-> c3.entries[entry].value]

\* removeAll with the slip of leaving out `this.keymap = {}`
removeAll_KeepsKeymap(c) ==
  [c EXCEPT !.head = undefined, !.tail = undefined, !.size = 0]

removeAll(c) ==
  [c EXCEPT !.head = undefined, !.tail = undefined, !.size = 0,
            !.keymap = [k \in Keys |-> undefined]]

keys(c) == {k \in Keys : c.keymap[k] # undefined}

\* the entries forEach visits: the walk from head along newer (desc = FALSE)
\* or from tail along older (desc = TRUE).  A walk that has not ended after
\* Len(c.entries) + 1 visits is in a cycle (the loop of the code never ends);
\* the walk is cut there, so a result longer than the heap marks a cycle.
RECURSIVE walk(_, _, _, _)
walk(c, entry, desc, fuel) ==
  IF entry = undefined \/ fuel = 0 THEN <<>>
  ELSE <<entry>> \o walk(c, IF desc THEN c.entries[entry].older ELSE c.entries[entry].newer, desc, fuel - 1)

forEach(c, desc) ==
  walk(c, IF desc THEN c.tail ELSE c.head, desc, Len(c.entries) + 1)

\* ---- state machine ----

Init ==
  /\ limit \in 0..MaxLimit
  /\ size = 0
  /\ keymap = [k \in Keys |-> undefined]
  /\ head = undefined
  /\ tail = undefined
  /\ entries = <<>>
  /\ last = [op |-> "new", ret |-> undefined, evicted |-> undefined]
  /\ useOrder = <<>>
  /\ returned = {}

Install(c) ==
  /\ limit' = c.limit
  /\ size' = c.size
  /\ keymap' = c.keymap
  /\ head' = c.head
  /\ tail' = c.tail
  /\ entries' = c.entries

\* e becomes the most recently used entry
Touch(order, e) == SelectSeq(order, LAMBDA x : x # e) \o <<e>>

Returned(e) == IF e = undefined THEN returned ELSE returned \cup {e}

Put(key, value) ==
  /\ Len(entries) < MaxEntries
  /\ LET r == put(Cache, key, value) IN
       /\ Install(r.c)
       /\ last' = [op |-> "put", ret |-> r.ret, evicted |-> r.ret]
       /\ useOrder' = Append(useOrder, Len(entries) + 1)
       /\ returned' = Returned(r.ret)

Shift ==
  LET r == shift(Cache) IN
    /\ Install(r.c)
    /\ last' = [op |-> "shift", ret |-> r.ret, evicted |-> r.ret]
    /\ returned' = Returned(r.ret)
    /\ UNCHANGED useOrder

Get(key, returnEntry) ==
  LET r == get(Cache, key, returnEntry) IN
    /\ Install(r.c)
    /\ last' = [op |-> "get", ret |-> r.ret, evicted |-> undefined]
    /\ useOrder' = IF keymap[key] # undefined THEN Touch(useOrder, keymap[key]) ELSE useOrder
    /\ UNCHANGED returned

Find(key) ==
  /\ last' = [op |-> "find", ret |-> find(Cache, key), evicted |-> undefined]
  /\ UNCHANGED <<limit, size, keymap, head, tail, entries, useOrder, returned>>

Set(key, value) ==
  /\ keymap[key] # undefined \/ Len(entries) < MaxEntries
  /\ LET r == set(Cache, key, value)
         evicted == IF keymap[key] # undefined THEN undefined ELSE put(Cache, key, value).ret
     IN
       /\ Install(r.c)
       /\ last' = [op |-> "set", ret |-> r.ret, evicted |-> evicted]
       /\ useOrder' = IF keymap[key] # undefined
                      THEN Touch(useOrder, keymap[key])
                      ELSE Append(useOrder, Len(entries) + 1)
       /\ returned' = Returned(evicted)

Remove(key) ==
  LET r == remove(Cache, key) IN
    /\ Install(r.c)
    /\ last' = [op |-> "remove", ret |-> r.ret, evicted |-> undefined]
    /\ returned' = Returned(keymap[key])
    /\ UNCHANGED useOrder

RemoveAll ==
  /\ Install(removeAll(Cache))
  /\ last' = [op |-> "removeAll", ret |-> undefined, evicted |-> undefined]
  /\ UNCHANGED <<useOrder, returned>>

\* every public method, shift included
Next ==
  \/ \E key \in Keys, value \in Values : Put(key, value)
  \/ Shift
  \/ \E key \in Keys, returnEntry \in BOOLEAN : Get(key, returnEntry)
  \/ \E key \in Keys : Find(key)
  \/ \E key \in Keys, value \in Values : Set(key, value)
  \/ \E key \in Keys : Remove(key)
  \/ RemoveAll

Spec == Init /\ [][Next]_vars

\* the same cache used without calling shift directly (shift runs only inside put)
NextNoShift ==
  \/ \E key \in Keys, value \in Values : Put(key, value)
  \/ \E key \in Keys, returnEntry \in BOOLEAN : Get(key, returnEntry)
  \/ \E key \in Keys : Find(key)
  \/ \E key \in Keys, value \in Values : Set(key, value)
  \/ \E key \in Keys : Remove(key)
  \/ RemoveAll

SpecNoShift == Init /\ [][NextNoShift]_vars

\* put called only for a key that is not in the index
PutAbsent(key, value) ==
  /\ keymap[key] = undefined
  /\ Put(key, value)

\* the cache used without calling shift directly and without calling put on a
\* key that is in the index
NextAbsent ==
  \/ \E key \in Keys, value \in Values : PutAbsent(key, value)
  \/ \E key \in Keys, returnEntry \in BOOLEAN : Get(key, returnEntry)
  \/ \E key \in Keys : Find(key)
  \/ \E key \in Keys, value \in Values : Set(key, value)
  \/ \E key \in Keys : Remove(key)
  \/ RemoveAll

SpecAbsent == Init /\ [][NextAbsent]_vars

TypeOK ==
  /\ limit \in 0..MaxLimit
  /\ size \in Int
  /\ head \in 0..Len(entries)
  /\ tail \in 0..Len(entries)
  /\ keymap \in [Keys -> 0..Len(entries)]
  /\ Len(entries) <= MaxEntries

\* ---- helpers of the properties ----

Reverse(seq) == [i \in 1..Len(seq) |-> seq[Len(seq) + 1 - i]]

Range(seq) == {seq[i] : i \in 1..Len(seq)}

\* the place of entry e in the order of last use
Pos(e) == CHOOSE i \in 1..Len(useOrder) : useOrder[i] = e

\* the entries reachable from the entries of `from` through older and newer links
RECURSIVE Closure(_, _)
Closure(c, from) ==
  LET linked == {c.entries[e].newer : e \in from} \cup {c.entries[e].older : e \in from}
      more == from \cup (linked \ {undefined})
  IN IF more = from THEN from ELSE Closure(c, more)

\* the entries reachable from head or from tail
Reachable(c) == Closure(c, {c.head, c.tail} \ {undefined})

\* the call just made ran a put (directly, or inside set) and that put returned an entry
PutEvicted(l) == l.op \in {"put", "set"} /\ l.evicted # undefined

\* ---- C1 ----
\* C1: capacity bound: after any public operation (put, get, set, remove,
\* removeAll, shift, find) size does not exceed limit, for every limit >= 0.
CapacityBound == size <= limit

\* a put arrived at a full cache of limit >= 1 and evicted an entry
CapacityBoundWitness ==
  /\ limit >= 1
  /\ size = limit
  /\ last.op = "put"
  /\ last.evicted # undefined

\* ---- C2 ----
\* C2 as stated: whenever a put returns an evicted entry, that entry's key is
\* the key of the head entry observed immediately before the put.
EvictionIdentityAsStated ==
  [][PutEvicted(last') =>
       /\ head # undefined
       /\ entries'[last'.evicted].key = entries[head].key]_vars

\* C2 amended: whenever a put returns an evicted entry, that entry is the head
\* entry observed immediately before the put when there was one; when head was
\* none before the put (which happens only with limit == 0, on a cache whose
\* tail is none too), the evicted entry is the entry the put just inserted.
EvictionIdentity ==
  [][PutEvicted(last') =>
       IF head # undefined
       THEN last'.evicted = head
       ELSE last'.evicted = Len(entries') /\ limit = 0 /\ tail = undefined]_vars

\* a put evicted a head that is not the oldest entry still linked: an earlier
\* get had moved the older entry to the tail
EvictionIdentityWitness ==
  /\ last.op = "put"
  /\ last.evicted # undefined
  /\ \E e \in Range(forEach(Cache, FALSE)) : e < last.evicted

\* ---- C3 ----
\* C3: recency ordering: after any sequence of put, get, set, remove and
\* removeAll, the walk from head along newer yields the entries in strictly
\* increasing order of their last use, and the walk from tail along older
\* yields exactly the reverse sequence.
RecencyOrdering ==
  LET fwd == forEach(Cache, FALSE)
      bwd == forEach(Cache, TRUE)
  IN /\ \A i, j \in 1..Len(fwd) : i < j => Pos(fwd[i]) < Pos(fwd[j])
     /\ bwd = Reverse(fwd)

\* ---- C4 ----
\* C4: index/list agreement: every entry reachable from head via newer links is
\* the value of keymap[entry.key], and every entry stored in keymap is
\* reachable from head via newer links.
IndexListAgreement ==
  LET fwd == forEach(Cache, FALSE)
  IN /\ \A i \in 1..Len(fwd) : keymap[entries[fwd[i]].key] = fwd[i]
     /\ \A k \in Keys : keymap[k] # undefined => keymap[k] \in Range(fwd)

\* ---- C5 ----
\* C5: chain well-formedness: with shift invoked only from inside put, the
\* older/newer links form a single acyclic doubly linked chain from head to
\* tail whose length equals size, with head.older none and tail.newer none.
ChainWellFormed ==
  LET fwd == forEach(Cache, FALSE)
      bwd == forEach(Cache, TRUE)
  IN /\ bwd = Reverse(fwd)
     /\ Cardinality(Range(fwd)) = Len(fwd)
     /\ Len(fwd) = size
     /\ head # undefined => entries[head].older = undefined
     /\ tail # undefined => entries[tail].newer = undefined

\* ---- C6 ----
\* C6: empty-state invariant: with shift invoked only from inside put,
\* size == 0 if and only if head and tail are both none.
EmptyState == (size = 0) <=> (head = undefined /\ tail = undefined)

\* ---- C7 ----
\* C7: no dangling links: an entry that shift (direct or from put) or remove
\* has handed back is never again reachable from head, from tail, or through
\* the older/newer links of an entry reachable from them.
NoDanglingLinks == returned \cap Reachable(Cache) = {}

\* ---- C8 ----
\* C8: size is never negative and equals the current count of live entries
\* (the entries the walk from head visits), after any sequence of put, get,
\* set, remove and removeAll.
SizeIsLiveCount ==
  /\ 0 <= size
  /\ size = Len(forEach(Cache, FALSE))

\* ---- C9 ----
\* C9: round trip: in every reachable state with limit >= 1 (and, for
\* limit == 0, whenever the entry inserted by the set was not itself the one
\* evicted), set(k, v) immediately followed by get(k) returns v.
RoundTrip ==
  \A k \in Keys, v \in CallValues :
    LET s == set(Cache, k, v)
        selfEvicted == keymap[k] = undefined /\ put(Cache, k, v).ret = Len(entries) + 1
    IN (limit >= 1 \/ ~selfEvicted) => get(s.c, k, FALSE).ret = v

\* ---- C10 ----
\* C10: removal completeness: for every key k present in the index, remove(k)
\* returns that entry's value, and afterwards find(k) returns absent, keys()
\* does not contain k, and size is exactly one less than before the call.
RemovalCompleteness ==
  \A k \in Keys :
    keymap[k] # undefined =>
      LET r == remove(Cache, k)
      IN /\ r.ret = entries[keymap[k]].value
         /\ find(r.c, k) = undefined
         /\ k \notin keys(r.c)
         /\ r.c.size = size - 1

\* a remove has just taken out one of two present keys; the other is still there
RemovalCompletenessWitness ==
  /\ last.op = "remove"
  /\ last.ret # undefined
  /\ \E k \in Keys : keymap[k] # undefined

\* ---- C11 ----
\* C11: put on an existing key: when put(key, value) is called while key has
\* an entry in the cache, afterwards the index maps key to the new entry and
\* the previous entry is reachable neither from head along newer nor from tail
\* along older, so that forEach visits key exactly once.
PutOnExistingKey ==
  \A k \in Keys, v \in CallValues :
    keymap[k] # undefined =>
      LET p == put(Cache, k, v)
          fwd == forEach(p.c, FALSE)
          bwd == forEach(p.c, TRUE)
      IN /\ p.c.keymap[k] = Len(entries) + 1
         /\ keymap[k] \notin Range(fwd) \cup Range(bwd)
         /\ Cardinality({i \in 1..Len(fwd) : p.c.entries[fwd[i]].key = k}) = 1

\* ---- C12 ----
\* C12: set on an absent key performs a put; it returns the evicted entry's
\* value when the put evicted an entry other than the one just inserted, and
\* returns absent otherwise (also when, with limit == 0, the put evicts the
\* entry it just inserted).
SetOnAbsentKey ==
  \A k \in Keys, v \in CallValues :
    keymap[k] = undefined =>
      LET s == set(Cache, k, v)
          p == put(Cache, k, v)
          inserted == Len(entries) + 1
      IN /\ s.c = p.c
         /\ s.ret = IF p.ret # undefined /\ p.ret # inserted
                    THEN p.c.entries[p.ret].value
                    ELSE undefined

\* ---- C13 ----
\* C13: put result and size bookkeeping: a put called when size == limit
\* evicts the head entry (the head it finds once the new entry is linked),
\* returns that entry and leaves size unchanged; a put called when
\* size < limit returns nothing and increases size by exactly 1.
PutBookkeeping ==
  \A k \in Keys, v \in CallValues :
    LET p == put(Cache, k, v)
        inserted == Len(entries) + 1
        oldHead == IF tail # undefined THEN head ELSE inserted
    IN /\ size = limit =>
            /\ p.ret # undefined
            /\ p.ret = oldHead
            /\ p.ret \notin Range(forEach(p.c, FALSE))
            /\ p.c.size = size
       /\ size < limit =>
            /\ p.ret = undefined
            /\ p.c.size = size + 1

\* ---- C14 ----
\* C14: touch idempotence: calling get on the key of the current tail entry
\* leaves head, tail, size, the index, every entry and so the full
\* head-to-tail traversal order unchanged.
TouchIdempotence ==
  tail # undefined =>
    \A returnEntry \in BOOLEAN :
      LET g == get(Cache, entries[tail].key, returnEntry)
      IN /\ g.c = Cache
         /\ forEach(g.c, FALSE) = forEach(Cache, FALSE)

\* a get has just returned, and the tail it left is an indexed entry with
\* another entry before it in the chain
TouchIdempotenceWitness ==
  /\ last.op = "get"
  /\ last.ret # undefined
  /\ keymap[entries[tail].key] = tail
  /\ Len(forEach(Cache, FALSE)) >= 2

\* ---- C15 ----
\* C15: full clear: after removeAll() size == 0, keys() is empty, and head and
\* tail are both none, whatever the state before.
FullClear ==
  [][last'.op = "removeAll" =>
       /\ size' = 0
       /\ keys(Cache') = {}
       /\ head' = undefined
       /\ tail' = undefined]_vars

\* removeAll has just cleared a cache that held every entry created so far
FullClearWitness ==
  /\ last.op = "removeAll"
  /\ Len(entries) >= 2
  /\ returned = {}

\* ---- C16 ----
\* C16: find(key) for any key, and get(key) and remove(key) for a key absent
\* from the index, leave head, tail, size, the index and every entry's links
\* and value unchanged.
MissChangesNothing ==
  [][(\/ last'.op = "find"
      \/ last'.op \in {"get", "remove"} /\ last'.ret = undefined)
     => UNCHANGED <<limit, size, keymap, head, tail, entries>>]_vars

\* a remove has just missed on a cache that holds an entry
MissChangesNothingWitness ==
  /\ last.op = "remove"
  /\ last.ret = undefined
  /\ size >= 1
  /\ head # undefined

SetOnPresentKey ==
  \A k \in Keys, v \in CallValues :
    keymap[k] # undefined =>
      LET entry == keymap[k]
          s == set(Cache, k, v)
      IN /\ s.ret = entries[entry].value
         /\ s.c.entries[entry].value = v
         /\ Len(s.c.entries) = Len(entries)
         /\ s.c.size = size
         /\ s.c.keymap = keymap
         /\ s.c.tail = entry

\* a set has just overwritten the value of a present key: it returned a value
\* although its put ran for no entry
SetOnPresentKeyWitness ==
  /\ last.op = "set"
  /\ last.ret # undefined
  /\ last.evicted = undefined
  /\ Len(forEach(Cache, FALSE)) >= 2

IndexBounded == Cardinality(keys(Cache)) <= limit

====
